---- MODULE Spec2Model ----
(***************************************************************************)
(* Transmit mode ('tx') of qr-comm.py: the payload is read, optionally     *)
(* zlib-compressed, cut into segments of --bytes bytes, every segment is   *)
(* QR-encoded and saved under str(byte offset) in a temporary directory,   *)
(* the frames are handed to 'convert' and/or displayed, and the temporary  *)
(* directory is removed.                                                   *)
(*                                                                         *)
(* A byte is a number 0..255.  File names are decimal strings, modelled as *)
(* sequences of digits 0..9.  Time is an integer clock.  Python 2 integer  *)
(* division is floor division.                                             *)
(***************************************************************************)
EXTENDS Integers, Sequences, FiniteSets, TLC

VARIABLES
    source,       \* content of the payload file (f.read(), line 118)
    bytes,        \* args.bytes
    zlib,         \* args.zlib
    outfile,      \* args.outfile given
    display,      \* args.display
    tickSet,      \* environment: possible durations of one timed step
    pc,           \* position of the script
    err,          \* uncaught exception that ended the run, or "none"
    payload,      \* payload (line 118, reassigned line 132)
    zpayload,     \* _payload (line 124)
    temp,         \* temporary directory: "none", "exists", "removed"
    size,         \* size
    total,        \* total
    count,        \* count
    elapsed,      \* elapsed
    start,        \* start
    timed,        \* timed
    i,            \* loop variable of both range() loops
    frames,       \* frames saved in temp, in production order
    genlog,       \* "Generating frame ..." log lines (line 167)
    runlog,       \* "Run: ..., Elapsed: ..." log lines (line 204)
    convertArgs,  \* file list the shell expands temp/* to (line 215)
    now           \* time.time()

vars == <<source, bytes, zlib, outfile, display, tickSet, pc, err, payload,
          zpayload, temp, size, total, count, elapsed, start, timed, i,
          frames, genlog, runlog, convertArgs, now>>

inputs == <<source, bytes, zlib, outfile, display, tickSet>>

\* ---------------------------------------------------------------- bounds
MaxLen == 4          \* longest payload with arbitrary content
LongLen == 12        \* longest payload with uniform content
NegBytes == 1         \* --bytes is tried from -NegBytes
MaxBytes == 3        \* largest --bytes tried
MaxTick == 1         \* longest duration of one timed step
CapByte == 1         \* codec capacity, 8-bit mode (scaled down)
CapNumeric == 2      \* codec capacity, numeric mode (scaled down)
ZlibOverhead == 1    \* shortest zlib stream (scaled down)

\* --------------------------------------------------------------- helpers
Min(a, b) == IF a < b THEN a ELSE b

DIGIT0 == 48
NONDIGIT == 255
Byte == {DIGIT0, NONDIGIT}

RECURSIVE SeqsUpTo(_, _)
SeqsUpTo(S, n) ==
    IF n = 0 THEN {<<>>}
    ELSE LET T == SeqsUpTo(S, n - 1)
         IN  T \cup {Append(t, x) : t \in {u \in T : Len(u) = n - 1}, x \in S}

Uniform(b, n) == [k \in 1..n |-> b]

\* Python 2 int / int: floor division, also for a negative divisor
PyDiv(a, b) == IF b > 0 THEN a \div b ELSE (0 - a) \div (0 - b)

\* for i in range(0, total, step): is offset off still inside the range
InRange(off, tot, step) ==
    \/ step > 0 /\ off < tot
    \/ step < 0 /\ off > tot

\* count = (total / args.bytes) + 1
SegmentCount(tot, cap) == PyDiv(tot, cap) + 1

\* num = int((i / args.bytes) + 1)
SegmentNum(off, cap) == PyDiv(off, cap) + 1

\* a slice that runs one byte into the next window
SliceOverlap(p, off, cap) == SubSeq(p, off + 1, Min(off + cap + 1, Len(p)))

\* payload[i:i + args.bytes], for args.bytes > 0
Slice(p, off, cap) == SubSeq(p, off + 1, Min(off + cap, Len(p)))

\* str(i) for i >= 0
RECURSIVE Str(_)
Str(n) == IF n < 10 THEN <<n>> ELSE Append(Str(n \div 10), n % 10)

\* string comparison as the shell's sorted wildcard expansion uses it
RECURSIVE StrLess(_, _)
StrLess(a, b) ==
    IF a = <<>> THEN b # <<>>
    ELSE IF b = <<>> THEN FALSE
    ELSE IF Head(a) # Head(b) THEN Head(a) < Head(b)
    ELSE StrLess(Tail(a), Tail(b))

\* temp/* : the names in the directory, sorted as strings
RECURSIVE Glob(_)
Glob(names) ==
    IF names = {} THEN <<>>
    ELSE LET m == CHOOSE x \in names : \A y \in names \ {x} : StrLess(x, y)
         IN  <<m>> \o Glob(names \ {m})

\* qr.add_data(segment): the data that goes into the QR symbol
QrPayload(num, cnt, segment) == segment

\* qrcode picks numeric mode for all-digit data, 8-bit mode otherwise
QrMode(data) ==
    IF data # <<>> /\ \A k \in 1..Len(data) : data[k] \in 48..57
    THEN "numeric" ELSE "byte"

\* qr.make(): does the data fit the largest symbol
Fits(data) ==
    Len(data) <= (IF QrMode(data) = "numeric" THEN CapNumeric ELSE CapByte)

\* zlib.compress(payload): some stream, never empty, starting with 0x78
ZlibCandidates(p) ==
    {<<120>> \o Uniform(NONDIGIT, n - 1) : n \in ZlibOverhead..(Len(p) + ZlibOverhead)}

Names == {frames[k].name : k \in 1..Len(frames)}

Running == err = "none" /\ pc # "done"

\* ------------------------------------------------------------------ Init
InitRest ==
    /\ zlib \in BOOLEAN
    /\ outfile \in BOOLEAN
    /\ display \in BOOLEAN
    /\ bytes \in (0 - NegBytes)..MaxBytes
    /\ pc = "compress"
    /\ err = "none"
    /\ payload = source
    /\ zpayload = <<>>
    /\ temp = "none"
    /\ size = 0
    /\ total = 0
    /\ count = 0
    /\ elapsed = 0
    /\ start = 0
    /\ timed = <<>>
    /\ i = 0
    /\ frames = <<>>
    /\ genlog = <<>>
    /\ runlog = <<>>
    /\ convertArgs = <<>>
    /\ now = 0

\* the payload files tried: every content up to MaxLen, one repeated byte
\* up to LongLen
Payloads ==
    SeqsUpTo(Byte, MaxLen) \cup {Uniform(b, n) : b \in Byte, n \in 0..LongLen}

\* every timed step takes one clock unit
Init ==
    /\ source \in Payloads
    /\ tickSet = {1}
    /\ InitRest

\* a timed step takes any duration up to MaxTick
InitClock ==
    /\ source \in SeqsUpTo(Byte, MaxLen)
    /\ tickSet = 0..MaxTick
    /\ InitRest

\* --------------------------------------------------------------- actions
\* lines 120-132
Compress ==
    /\ Running /\ pc = "compress"
    /\ UNCHANGED <<inputs, temp, size, total, count, elapsed, start, timed, i,
                   frames, genlog, runlog, convertArgs, now>>
    /\ IF ~zlib
       THEN /\ pc' = "setup"
            /\ UNCHANGED <<err, payload, zpayload>>
       ELSE \E cand \in ZlibCandidates(payload) :
            LET before == Len(payload)
                after == Len(cand)
            IN  /\ zpayload' = cand
                /\ IF before = 0
                   THEN \* ratio = 100 * after/before
                        /\ err' = "ZeroDivisionError"
                        /\ UNCHANGED <<pc, payload>>
                   ELSE /\ payload' = IF after >= before THEN payload ELSE cand
                        /\ pc' = "setup"
                        /\ UNCHANGED err

\* lines 134-152
Setup ==
    /\ Running /\ pc = "setup"
    /\ temp' = "exists"
    /\ size' = 0
    /\ total' = Len(payload)
    /\ UNCHANGED <<inputs, payload, zpayload, frames, genlog, runlog,
                   convertArgs, now, i>>
    /\ IF bytes = 0
       THEN \* count = (total / args.bytes) + 1
            /\ err' = "ZeroDivisionError"
            /\ UNCHANGED <<pc, count, elapsed, start, timed>>
       ELSE /\ count' = SegmentCount(Len(payload), bytes)
            /\ elapsed' = 0
            /\ start' = now
            /\ timed' = <<>>
            /\ pc' = "loop"
            /\ UNCHANGED err

\* lines 154-205, one iteration
EncodeSegment ==
    /\ Running /\ pc = "loop"
    /\ InRange(i, total, bytes)
    /\ \E d1 \in tickSet, d2 \in tickSet :
       LET run == now
           num == SegmentNum(i, bytes)
           segment == Slice(payload, i, bytes)
           nsize == size + Len(segment)
           line == [num |-> num, count |-> count, done |-> nsize,
                    left |-> total - nsize, len |-> Len(segment)]
           data == QrPayload(num, count, segment)
       IN  /\ size' = nsize
           /\ genlog' = Append(genlog, line)
           /\ UNCHANGED <<inputs, payload, zpayload, temp, total, count, start,
                          convertArgs>>
           /\ IF ~Fits(data)
              THEN \* qr.make() raises
                   /\ err' = "DataOverflowError"
                   /\ now' = now + d1
                   /\ UNCHANGED <<pc, elapsed, timed, i, frames, runlog>>
              ELSE /\ frames' = Append(frames,
                          [num |-> num, name |-> Str(i), data |-> data,
                           segment |-> segment])
                   /\ timed' = Append(timed, (now + d1) - run)
                   /\ now' = now + d1 + d2
                   /\ elapsed' = elapsed + ((now + d1 + d2) - start)
                   /\ runlog' = Append(runlog,
                          [num |-> num, run |-> (now + d1) - run,
                           elapsed |-> elapsed + ((now + d1 + d2) - start),
                           at |-> now + d1 + d2])
                   /\ i' = i + bytes
                   /\ UNCHANGED <<pc, err>>

\* line 154, range exhausted
EncodeDone ==
    /\ Running /\ pc = "loop"
    /\ ~InRange(i, total, bytes)
    /\ pc' = "convert"
    /\ UNCHANGED <<inputs, err, payload, zpayload, temp, size, total, count,
                   elapsed, start, timed, i, frames, genlog, runlog,
                   convertArgs, now>>

\* lines 207-215
Convert ==
    /\ Running /\ pc = "convert"
    /\ convertArgs' = IF outfile THEN Glob(Names) ELSE convertArgs
    /\ pc' = "display"
    /\ UNCHANGED <<inputs, err, payload, zpayload, temp, size, total, count,
                   elapsed, start, timed, i, frames, genlog, runlog, now>>

\* lines 216-220; pygame.display.set_mode may raise pygame.error
DisplayInit ==
    /\ Running /\ pc = "display"
    /\ UNCHANGED <<inputs, payload, zpayload, temp, size, total, count,
                   elapsed, start, timed, frames, genlog, runlog,
                   convertArgs, now>>
    /\ IF ~outfile \/ display
       THEN \/ /\ pc' = "show"
               /\ i' = 0
               /\ UNCHANGED err
            \/ /\ err' = "pygame.error"
               /\ UNCHANGED <<pc, i>>
       ELSE /\ pc' = "cleanup"
            /\ UNCHANGED <<err, i>>

\* lines 222-235, one iteration
DisplayFrame ==
    /\ Running /\ pc = "show"
    /\ InRange(i, total, bytes)
    /\ Str(i) \in Names
    /\ now' = now + 1
    /\ i' = i + bytes
    /\ UNCHANGED <<inputs, pc, err, payload, zpayload, temp, size, total,
                   count, elapsed, start, timed, frames, genlog, runlog,
                   convertArgs>>

\* line 222, range exhausted
DisplayDone ==
    /\ Running /\ pc = "show"
    /\ ~InRange(i, total, bytes)
    /\ pc' = "cleanup"
    /\ UNCHANGED <<inputs, err, payload, zpayload, temp, size, total, count,
                   elapsed, start, timed, i, frames, genlog, runlog,
                   convertArgs, now>>

\* Ctrl-C during time.sleep(args.delay), line 235
Interrupt ==
    /\ Running /\ pc = "show"
    /\ InRange(i, total, bytes)
    /\ err' = "KeyboardInterrupt"
    /\ UNCHANGED <<inputs, pc, payload, zpayload, temp, size, total, count,
                   elapsed, start, timed, i, frames, genlog, runlog,
                   convertArgs, now>>

\* lines 237-238
Cleanup ==
    /\ Running /\ pc = "cleanup"
    /\ temp' = "removed"
    /\ pc' = "done"
    /\ UNCHANGED <<inputs, err, payload, zpayload, size, total, count,
                   elapsed, start, timed, i, frames, genlog, runlog,
                   convertArgs, now>>

Next ==
    \/ Compress
    \/ Setup
    \/ EncodeSegment
    \/ EncodeDone
    \/ Convert
    \/ DisplayInit
    \/ DisplayFrame
    \/ DisplayDone
    \/ Interrupt
    \/ Cleanup

Spec == Init /\ [][Next]_vars

SpecClock == InitClock /\ [][Next]_vars

TypeOK ==
    /\ pc \in {"compress", "setup", "loop", "convert", "display", "show",
               "cleanup", "done"}
    /\ err \in {"none", "ZeroDivisionError", "DataOverflowError",
                "pygame.error", "KeyboardInterrupt"}
    /\ temp \in {"none", "exists", "removed"}
    /\ size \in Nat /\ total \in Nat /\ count \in Int

\* ---------------------------------------------------------------- claims
CeilDiv(a, b) == (a + b - 1) \div b

AfterLoop == pc \in {"convert", "display", "show", "cleanup", "done"}

RECURSIVE Concat(_)
Concat(fs) == IF fs = <<>> THEN <<>> ELSE Head(fs).segment \o Concat(Tail(fs))

\* the segment number of the frame saved under a name
NumOf(name) == (CHOOSE k \in 1..Len(frames) : frames[k].name = name)

\* C1: for a capacity >= 1 the segment count computed once and announced in
\* every progress line is ceil(total / capacity) for a non-empty payload and 1
\* for an empty one, and it equals the number of frames the encode loop
\* produces for a non-empty payload.
C1_CountIsCeil ==
    (bytes >= 1 /\ pc \notin {"compress", "setup"}) =>
        LET expected == IF total = 0 THEN 1 ELSE CeilDiv(total, bytes)
        IN  /\ count = expected
            /\ \A k \in 1..Len(genlog) : genlog[k].count = expected
            /\ (AfterLoop /\ total >= 1) => count = Len(frames)

\* C2: for a capacity >= 1 the segments are contiguous, non-overlapping
\* windows of the payload: segment k is bytes [(k-1)*C, min(k*C, len)), no
\* segment is longer than C, only the last may be shorter, and the segments
\* concatenated in number order give the payload.
C2_Segments ==
    bytes >= 1 =>
        /\ \A k \in 1..Len(frames) :
              /\ frames[k].num = k
              /\ frames[k].segment =
                    SubSeq(payload, (k - 1) * bytes + 1,
                           Min(k * bytes, Len(payload)))
              /\ Len(frames[k].segment) <= bytes
              /\ Len(frames[k].segment) < bytes =>
                    k = CeilDiv(Len(payload), bytes)
        /\ AfterLoop => Concat(frames) = payload

\* C2 witness: a finished run of two frames over a payload of mixed content
\* whose last segment is shorter than the capacity.
C2_Witness ==
    /\ pc = "done" /\ bytes = 2 /\ Len(frames) = 2
    /\ Len(frames[2].segment) = 1
    /\ frames[1].segment # <<>>
    /\ frames[2].segment[1] # frames[1].segment[1]

\* C3: transmitting an empty payload with a capacity >= 1 produces exactly
\* one frame with empty data and count = 1; the encode loop never ends with
\* zero frames.
C3_EmptyOneFrame ==
    (bytes >= 1 /\ AfterLoop /\ total = 0) =>
        /\ Len(frames) = 1
        /\ frames[1].segment = <<>>
        /\ count = 1

\* C4: with a capacity that is not positive the run fails with
\* InvalidConfiguration before any segment or frame is produced; it never
\* completes and never fails with another error.  Stated of the run once
\* the compression step is over.
C4_InvalidCapacity ==
    (bytes <= 0 /\ pc # "compress") =>
        /\ pc # "done"
        /\ err \in {"none", "InvalidConfiguration"}
        /\ frames = <<>> /\ genlog = <<>>

\* C5: on every exit path of a run that created the temporary directory,
\* the directory has been removed when the process terminates.
C5_TempRemoved ==
    (pc = "done" \/ err # "none") => temp # "exists"

\* C6: the frame files handed to the animation assembler are in ascending
\* segment order: the frame of segment k precedes the frame of segment k+1.
C6_ConvertOrder ==
    \A j, k \in 1..Len(convertArgs) :
        j < k => NumOf(convertArgs[j]) < NumOf(convertArgs[k])

\* C7: if a segment exceeds what the codec can hold, the run fails before
\* any frame has been produced: no frame is written before a later segment
\* fails to encode.
C7_OverflowBeforeFrames ==
    err = "DataOverflowError" => frames = <<>>

\* C8: every frame is self-describing: its QR data holds the index, the
\* count and the compression flag in addition to the raw segment bytes, so
\* the QR data is more than the segment and two frames of one transfer,
\* having distinct indices, never carry the same QR data.
C8_SelfDescribing ==
    /\ \A k \in 1..Len(frames) : frames[k].data # frames[k].segment
    /\ \A j, k \in 1..Len(frames) :
          j # k => frames[j].data # frames[k].data

\* C9: with compression enabled the compression step completes for every
\* payload, the empty one included, and what is then segmented is no longer
\* than the payload: the candidate if it is strictly shorter, otherwise the
\* payload unchanged.
C9_CompressionNeverExpands ==
    zlib =>
        /\ ~(pc = "compress" /\ err # "none")
        /\ pc # "compress" =>
              /\ Len(payload) <= Len(source)
              /\ payload = IF Len(zpayload) < Len(source)
                           THEN zpayload ELSE source

\* C10: the elapsed time of every progress line equals the wall-clock time
\* since the encode loop started.
C10_ElapsedIsWallClock ==
    \A k \in 1..Len(runlog) : runlog[k].elapsed = runlog[k].at - start
====
